---- MODULE Spec2Model ----
(***************************************************************************)
(* The registers mapper (registers/mapper/main.go): a log scanner that     *)
(* projects the leaves of a Trillian log into one record per key of a      *)
(* Trillian map.  For each log leaf the scanner reads the map leaf of the  *)
(* key (get), decides between create, skip, replace and add by comparing   *)
(* entry timestamps, and writes the resulting record back (saveRecord).    *)
(*                                                                         *)
(* Texts are kept as texts: a log leaf carries the JSON texts of its       *)
(* fields, a map leaf carries the JSON text json.Marshal produced, and     *)
(* ParseTime / ParseItem / Marshal / Unmarshal do the conversions.         *)
(***************************************************************************)
EXTENDS Integers, Sequences, FiniteSets, TLC

VARIABLES
    log,       \* the leaves of the Trillian log handed to the scanner so far, in log order
    store,     \* the Trillian map: index -> map leaf
    store0,    \* the contents of the map when the first run started
    pc,        \* per mapper process: "scan" (between leaves), "got" (get returned), or how
               \* it ended: "decode_error", "panic", "get_error", "set_error"
    pos,       \* per mapper process: number of leaves whose Leaf() call has returned
    cur,       \* per mapper process: the result of get, <<>> for nil, <<r>> for &r
    calls,     \* the map RPCs issued by the processes since they were started
    restarts,  \* how many times the process was stopped and started again
    replays,   \* how many times the map was reset to store0 and the log scanned again
    final,     \* the map as the first complete scan left it (set when a replay starts)
    maporder   \* the order in which the Go runtime ranges over a map, which is not
               \* fixed from run to run: .first in the first run, .now in this run

vars == <<log, store, store0, pc, pos, cur, calls, restarts, replays, final, maporder>>

(***************************************************************************)
(* Bounds.                                                                 *)
(***************************************************************************)
MaxLog == 3
MaxRestarts == 1
MaxReplays == 2

Keys == {"k1", "k2"}
\* mapper processes run against the same map; the specifications below run "d1"
Drivers == {"d1", "d2"}

(***************************************************************************)
(* Timestamps: time.Parse(time.RFC3339, s) as seconds since the epoch.     *)
(* Two texts with different zone offsets can denote the same instant.      *)
(***************************************************************************)
T2019 == "2019-01-01T00:00:00Z"
T2020 == "2020-01-01T00:00:00Z"
T2020p == "2020-01-01T01:00:00+01:00"
T2021 == "2021-01-01T00:00:00Z"

ParseTime(s) ==
    CASE s = T2019 -> 1546300800
      [] s = T2020 -> 1577836800
      [] s = T2020p -> 1577836800
      [] s = T2021 -> 1609459200

\* mutants: the receiver and the argument of the comparison exchanged
BeforeSwapped(t, u) == u < t
AfterSwapped(t, u) == u > t

\* mutant: an equal instant counts as before
BeforeOrEqual(t, u) == t <= u

\* mutant: an equal instant counts as after
AfterOrEqual(t, u) == t >= u

\* time.Time.Before / time.Time.After compare instants
Before(t, u) == t < u
After(t, u) == t > u

(***************************************************************************)
(* Items: json.Unmarshal of an item text into map[string]interface{}       *)
(* (every JSON number becomes a float64), and json.Marshal back.           *)
(***************************************************************************)
I1 == "{\"v\":1}"
I1f == "{\"v\":1.0}"
I2 == "{\"v\":2}"
I3 == "{\"v\":3}"
I99 == "{\"v\":99}"

ParseItem(s) ==
    CASE s = I1 -> [v |-> 1]
      [] s = I1f -> [v |-> 1]
      [] s = I2 -> [v |-> 2]
      [] s = I3 -> [v |-> 3]
      [] s = I99 -> [v |-> 99]

MarshalItem(i) ==
    CASE i.v = 1 -> I1
      [] i.v = 2 -> I2
      [] i.v = 3 -> I3
      [] i.v = 99 -> I99

\* mutant: the two maps compared by identity, which no two decoded items share
DeepEqualIdentity(a, b) == FALSE

\* reflect.DeepEqual on two decoded items
DeepEqual(a, b) == a = b

(***************************************************************************)
(* The log leaves the scanner is fed.  A leaf is the payload               *)
(*   {"Entry":{"key":key,"entry-timestamp":ts},"Item":item}                *)
(***************************************************************************)
Leaves ==
    [key : {"k1"}, ts : {T2020, T2020p, T2021}, item : {I1, I1f, I2}]
    \cup [key : {"k2"}, ts : {T2020, T2021}, item : {I1}]

\* Leaves Leaf() cannot decode.  A field that is not in the payload is Missing;
\* TBad is no RFC 3339 text; a payload whose Item is cut off is not JSON.
Missing == "<missing>"
TBad == "2020-01-01"
ItemCut == "{\"v\":"

BadLeaves ==
    {[key |-> "k1", ts |-> T2020, item |-> ItemCut],
     [key |-> "k1", ts |-> TBad, item |-> I1],
     [key |-> Missing, ts |-> TBad, item |-> I1],
     [key |-> "k1", ts |-> Missing, item |-> I1],
     [key |-> Missing, ts |-> T2020, item |-> I1]}

\* time.Parse(time.RFC3339, s) returns an error
ParseTimeFails(s) == s \notin {T2019, T2020, T2020p, T2021}

\* lines 126-138: how the decoding of a payload ends: json.Unmarshal or
\* time.Parse return an error ("error"), a type assertion on a field that is
\* not there panics ("panic"), or all four values are there ("ok")
Decode(leaf) ==
    IF leaf.item = ItemCut THEN "error"
    ELSE IF leaf.ts = Missing THEN "panic"
    ELSE IF ParseTimeFails(leaf.ts) THEN "error"
    ELSE IF leaf.key = Missing THEN "panic"
    ELSE IF leaf.item = Missing THEN "panic"
    ELSE "ok"

\* lines 131-138: the fields Leaf() takes out of the decoded payload
LeafEntry(leaf) == ("entry-timestamp" :> leaf.ts) @@ ("key" :> leaf.key)
LeafItem(leaf) == ParseItem(leaf.item)
LeafTime(leaf) == ParseTime(LeafEntry(leaf)["entry-timestamp"])
LeafKey(leaf) == LeafEntry(leaf)["key"]

(***************************************************************************)
(* The record and its wire form.  json.Marshal writes the Entry map with   *)
(* its keys sorted ("entry-timestamp" before "key") and then the Items;    *)
(* the payload is kept as the sequence of these texts, so that the empty   *)
(* payload is the empty sequence.                                          *)
(***************************************************************************)
\* the text of a field of an Entry, Missing when the Entry has no such field
Field(e, f) == IF f \in DOMAIN e THEN e[f] ELSE Missing

\* the orders in which a run may range over the fields of a map
MapOrders == {"sorted", "reversed"}

\* the field names of the Entry as a range over the map visits them in this run
MapRange(e) ==
    LET all == IF maporder.now = "sorted" THEN <<"entry-timestamp", "key">>
                                          ELSE <<"key", "entry-timestamp">>
    IN IF \A n \in 1..2 : all[n] \in DOMAIN e THEN all
       ELSE SelectSeq(all, LAMBDA f : f \in DOMAIN e)

\* encoding/json sorts the keys of a map before it writes them:
\* "entry-timestamp" comes before "key"
SortKeys(ks) ==
    IF Len(ks) = 2 /\ ks[1] = "key" THEN <<ks[2], ks[1]>> ELSE ks

\* json.Marshal of the record: the fields of the Entry in the order of the
\* sorted keys, then the Items in the order of the slice
Marshal(r) ==
    LET ks == SortKeys(MapRange(r.Entry))
    IN (IF Len(ks) = 2
        THEN <<r.Entry[ks[1]], r.Entry[ks[2]]>>
        ELSE <<Field(r.Entry, "entry-timestamp"), Field(r.Entry, "key")>>)
           \o [n \in 1..Len(r.Items) |-> MarshalItem(r.Items[n])]

\* the item texts json.Unmarshal accepts
ItemTexts == {I1, I1f, I2, I3, I99}

\* getLeaf, lines 101-104: json.Unmarshal(l, &r) returns an error, because the
\* value is no JSON object at all or because one of its Items is cut off
UnmarshalFails(l) ==
    Len(l) < 2 \/ \E n \in 3..Len(l) : l[n] \notin ItemTexts

\* json.Unmarshal(l, &r) of a value it accepts; the Entry holds the fields
\* the value carries
Unmarshal(l) ==
    [Entry |-> IF l[1] # Missing /\ l[2] # Missing
               THEN ("entry-timestamp" :> l[1]) @@ ("key" :> l[2])
               ELSE [f \in {g \in {"entry-timestamp", "key"} :
                                (IF g = "key" THEN l[2] ELSE l[1]) # Missing}
                       |-> IF f = "key" THEN l[2] ELSE l[1]],
     Items |-> [n \in 1..(Len(l) - 2) |-> ParseItem(l[n + 2])]]

\* mutant: the item is put in front of Items
addFront(r, i) ==
    IF \E n \in 1..Len(r.Items) : DeepEqual(i, r.Items[n])
    THEN r
    ELSE [r EXCEPT !.Items = <<i>> \o @]

\* mutant: the item is appended without looking for it in Items
addAlways(r, i) == [r EXCEPT !.Items = Append(@, i)]

\* mutant: Items kept in a map keyed by the item and written out by a range
\* over it, in the order this run ranges over maps
addByMapRange(r, i) ==
    IF \E n \in 1..Len(r.Items) : DeepEqual(i, r.Items[n])
    THEN r
    ELSE IF maporder.now = "sorted"
         THEN [r EXCEPT !.Items = Append(@, i)]
         ELSE [r EXCEPT !.Items = <<i>> \o @]

\* record.add
add(r, i) ==
    IF \E n \in 1..Len(r.Items) : DeepEqual(i, r.Items[n])
    THEN r
    ELSE [r EXCEPT !.Items = Append(@, i)]

\* mutant: the slice handed to saveRecord is cut to length zero
NewRecordNoItems(entry, item) == [Entry |-> entry, Items |-> <<>>]

\* the record createRecord builds
NewRecord(entry, item) == [Entry |-> entry, Items |-> <<item>>]

(***************************************************************************)
(* The Trillian map.  The index of a key is its SHA-256 digest.  A leaf    *)
(* that was never written reads back with an empty LeafValue.              *)
(***************************************************************************)
Sum256(key) ==
    CASE key = "k1" -> "6ab9f1eb8f7d3388f4f9d586f66e99fd54080df2c446f0e58668b09c08a16dd0"
      [] key = "k2" -> "015f7e6bc5aeaf483724089e9252cc13b50951a6b69412522765cff4d780306e"

Indices == {Sum256(k) : k \in Keys}

NoLeaf == [written |-> FALSE, LeafValue |-> <<>>]
EmptyLeaf == [written |-> TRUE, LeafValue |-> <<>>]

EmptyStore == [x \in Indices |-> NoLeaf]

SetLeaves(st, index, v) == [st EXCEPT ![index] = [written |-> TRUE, LeafValue |-> v]]

\* mutant: leaves are served from a copy of the map taken when the run started
GetLeavesCached(st, index) == store0[index].LeafValue

GetLeaves(st, index) == st[index].LeafValue

\* mutant: the index is the digest of a fixed text, not of the key
saveRecordOneIndex(st, key, value) == SetLeaves(st, Sum256("k1"), Marshal(value))

\* mutant: the write is made only if the map still holds what the writer read
saveRecordIfUnchanged(st, key, value) ==
    IF \E d \in Drivers : pc[d] = "got" /\ log[pos[d] + 1].key = key
                            /\ cur[d] = (IF Len(GetLeaves(st, Sum256(key))) = 0 THEN <<>>
                                         ELSE <<Unmarshal(GetLeaves(st, Sum256(key)))>>)
    THEN SetLeaves(st, Sum256(key), Marshal(value))
    ELSE st

saveRecord(st, key, value) == SetLeaves(st, Sum256(key), Marshal(value))

\* what getLeaf returns: Nil is (nil, nil), <<r>> is (&r, nil) and
\* UnmarshalError is (nil, err) of line 103
Nil == <<>>
UnmarshalError == <<"error", "json.Unmarshal">>

getLeaf(st, key) ==
    LET l == GetLeaves(st, Sum256(key))
    IN IF Len(l) = 0 THEN Nil
       ELSE IF UnmarshalFails(l) THEN UnmarshalError
       ELSE <<Unmarshal(l)>>

\* mutant: get answers from the records found when the run started
getStale(st, key) == getLeaf(store0, key)

get(st, key) == getLeaf(st, key)

(***************************************************************************)
(* Leaf(): the branch taken after get returned cr, and the map it leaves.  *)
(***************************************************************************)
\* mutant: the t.After(ct) branch left out, a newer leaf falls through to add
BranchNewerAdds(cr, leaf) ==
    IF cr = Nil THEN "create"
    ELSE LET t == LeafTime(leaf)
             ct == ParseTime(cr[1].Entry["entry-timestamp"])
         IN IF Before(t, ct) THEN "skip" ELSE "add"

\* mutant: a leaf of the same timestamp whose item is already present returns
\* without saving the unchanged record
BranchSkipDuplicate(cr, leaf) ==
    IF cr = Nil THEN "create"
    ELSE LET t == LeafTime(leaf)
             ct == ParseTime(cr[1].Entry["entry-timestamp"])
         IN IF Before(t, ct) THEN "skip"
            ELSE IF After(t, ct) THEN "replace"
            ELSE IF add(cr[1], LeafItem(leaf)) = cr[1] THEN "skip"
            ELSE "add"

\* mutant: the two timestamp branches exchanged, an older leaf replaces
BranchOlderReplaces(cr, leaf) ==
    IF cr = Nil THEN "create"
    ELSE LET t == LeafTime(leaf)
             ct == ParseTime(cr[1].Entry["entry-timestamp"])
         IN IF Before(t, ct) THEN "replace"
            ELSE IF After(t, ct) THEN "skip"
            ELSE "add"

\* lines 145-168 for the record cr that get returned.  Line 150 reads the
\* timestamp of the stored record: the type assertion panics when the stored
\* Entry has no entry-timestamp ("panic"), and the error of time.Parse is
\* returned ("error"); neither writes.
Branch(cr, leaf) ==
    IF cr = Nil THEN "create"
    ELSE IF "entry-timestamp" \notin DOMAIN cr[1].Entry THEN "panic"
    ELSE IF ParseTimeFails(cr[1].Entry["entry-timestamp"]) THEN "error"
    ELSE LET t == LeafTime(leaf)
             ct == ParseTime(cr[1].Entry["entry-timestamp"])
         IN IF Before(t, ct) THEN "skip"
            ELSE IF After(t, ct) THEN "replace"
            ELSE "add"

\* the branches of Leaf() that call saveRecord
Writing == {"create", "replace", "add"}

\* how Leaf() goes on this leaf against the map st: the branch it takes, or
\* "error" / "panic" when the payload does not decode, when get returns the
\* error of json.Unmarshal, or when the stored timestamp cannot be read
LeafBranch(st, leaf) ==
    IF Decode(leaf) # "ok" THEN Decode(leaf)
    ELSE LET cr == get(st, LeafKey(leaf))
         IN IF cr = UnmarshalError THEN "error" ELSE Branch(cr, leaf)

\* Leaf() on this leaf ends the scan
LeafEnds(st, leaf) == LeafBranch(st, leaf) \in {"error", "panic"}

\* the map after Leaf() took branch b on the leaf
LeafWrite(st, leaf, b) ==
    CASE b \in {"create", "replace"} ->
            saveRecord(st, LeafKey(leaf), NewRecord(LeafEntry(leaf), LeafItem(leaf)))
      [] b = "add" ->
            saveRecord(st, LeafKey(leaf), add(get(st, LeafKey(leaf))[1], LeafItem(leaf)))
      [] OTHER -> st

\* the whole of Leaf() on one leaf, for a map nobody else writes
LeafStore(st, leaf) == LeafWrite(st, leaf, LeafBranch(st, leaf))

\* the record Leaf() hands to saveRecord in the create, replace and add branches
Saved(cr, leaf) ==
    IF Branch(cr, leaf) = "add"
    THEN add(cr[1], LeafItem(leaf))
    ELSE NewRecord(LeafEntry(leaf), LeafItem(leaf))

\* tc.Scan over a whole log: Leaf() on every leaf in log order, up to the
\* first leaf on which Leaf() does not return nil
RECURSIVE ScanStore(_, _)
ScanStore(st, ls) ==
    IF ls = <<>> THEN st
    ELSE LET b == LeafBranch(st, Head(ls))
         IN IF b \in {"error", "panic"} THEN st
            ELSE ScanStore(LeafWrite(st, Head(ls), b), Tail(ls))

(***************************************************************************)
(* The state machine.                                                      *)
(***************************************************************************)
GetCall(d, n, key, l) == [op |-> "get", d |-> d, n |-> n, index |-> Sum256(key), value |-> l]
\* a set also keeps the record that was handed to saveRecord
SetCall(d, n, key, r) ==
    [op |-> "set", d |-> d, n |-> n, index |-> Sum256(key), value |-> Marshal(r), rec |-> r]
\* calls that returned an error
GetErrCall(d, n, key) == [op |-> "geterr", d |-> d, n |-> n, index |-> Sum256(key), value |-> <<>>]
SetErrCall(d, n, key, r) == [op |-> "seterr", d |-> d, n |-> n, index |-> Sum256(key), value |-> Marshal(r)]

\* the map contents a run may start from
StartLeaves(k) ==
    {NoLeaf, EmptyLeaf,
     [written |-> TRUE,
      LeafValue |-> Marshal([Entry |-> ("entry-timestamp" :> T2020p) @@ ("key" :> k),
                             Items |-> <<[v |-> 2], [v |-> 1]>>])]}

StartStores ==
    {st \in [Indices -> UNION {StartLeaves(k) : k \in Keys}] :
        /\ st[Sum256("k1")] \in StartLeaves("k1")
        /\ st[Sum256("k2")] \in StartLeaves("k2") \ {EmptyLeaf}}

InitFrom(starts) ==
    /\ maporder = [first |-> "sorted", now |-> "sorted"]
    /\ log = <<>>
    /\ store0 \in starts
    /\ store = store0
    /\ final = store0
    /\ pc = [d \in Drivers |-> "scan"]
    /\ pos = [d \in Drivers |-> 0]
    /\ cur = [d \in Drivers |-> Nil]
    /\ calls = <<>>
    /\ restarts = 0
    /\ replays = 0

Init == InitFrom({EmptyStore})
InitAny == InitFrom(StartStores)

\* the maps a replayed run starts from: the empty map, and the map that holds
\* a record for k1 and nothing for k2
ReplayStores ==
    {st \in StartStores :
        /\ ~st[Sum256("k2")].written
        /\ st[Sum256("k1")] # EmptyLeaf}

\* the first of the runs that are compared, with any order of its map ranges
InitReplay ==
    /\ \E o \in MapOrders : maporder = [first |-> o, now |-> o]
    /\ log = <<>>
    /\ store0 \in ReplayStores
    /\ store = store0
    /\ final = store0
    /\ pc = [d \in Drivers |-> "scan"]
    /\ pos = [d \in Drivers |-> 0]
    /\ cur = [d \in Drivers |-> Nil]
    /\ calls = <<>>
    /\ restarts = 0
    /\ replays = 0

\* values of the map leaf of k1 that the mapper did not write: bytes that are
\* no JSON, a record whose Items text is cut off, a record whose timestamp is
\* no RFC 3339 text, and a record whose Entry has no entry-timestamp
ForeignValues ==
    {<<"xx">>,
     <<T2020, "k1", ItemCut>>,
     <<TBad, "k1", I1>>,
     <<Missing, "k1", I1>>}

ForeignStores ==
    {[EmptyStore EXCEPT ![Sum256("k1")] = [written |-> TRUE, LeafValue |-> v]] :
        v \in ForeignValues}

InitErr == InitFrom({EmptyStore} \cup ForeignStores)

\* two mapper processes started on the same log and the same empty map; the
\* log, of leaves of one key, is there in full when they start
RaceLeaves ==
    {[key |-> "k1", ts |-> T2020, item |-> I1],
     [key |-> "k1", ts |-> T2020, item |-> I2],
     [key |-> "k1", ts |-> T2021, item |-> I2]}

\* the log of the end-to-end example, and every log of as many of its leaves
ExampleLog ==
    <<[key |-> "k1", ts |-> T2020, item |-> I1],
      [key |-> "k1", ts |-> T2020, item |-> I2],
      [key |-> "k1", ts |-> T2019, item |-> I99],
      [key |-> "k1", ts |-> T2021, item |-> I3]>>

InitExample ==
    /\ maporder = [first |-> "sorted", now |-> "sorted"]
    /\ log \in [1..Len(ExampleLog) -> {ExampleLog[n] : n \in 1..Len(ExampleLog)}]
    /\ store0 = EmptyStore
    /\ store = store0
    /\ final = store0
    /\ pc = [d \in Drivers |-> "scan"]
    /\ pos = [d \in Drivers |-> 0]
    /\ cur = [d \in Drivers |-> Nil]
    /\ calls = <<>>
    /\ restarts = 0
    /\ replays = 0

InitTwo ==
    /\ maporder = [first |-> "sorted", now |-> "sorted"]
    /\ log \in [1..MaxLog -> RaceLeaves]
    /\ store0 = EmptyStore
    /\ store = store0
    /\ final = store0
    /\ pc = [d \in Drivers |-> "scan"]
    /\ pos = [d \in Drivers |-> 0]
    /\ cur = [d \in Drivers |-> Nil]
    /\ calls = <<>>
    /\ restarts = 0
    /\ replays = 0

\* the leaf process d is handling (pc = "got") or will be handed next
CurrentLeaf(d) == log[pos[d] + 1]

\* the leaves tc.Scan may hand over next: the next leaf of the log read so far,
\* or, at its end, any further leaf of the log
NextLeaves(d) ==
    IF pos[d] < Len(log) THEN {log[pos[d] + 1]}
    ELSE IF Len(log) < MaxLog /\ replays = 0 THEN Leaves
    ELSE {}

\* Leaf(), lines 125-144: decode the payload and get the current record
LeafGet(d) ==
    /\ pc[d] = "scan"
    /\ \E leaf \in {l \in NextLeaves(d) : Decode(l) = "ok"} :
        /\ log' = IF pos[d] < Len(log) THEN log ELSE Append(log, leaf)
        /\ cur' = [cur EXCEPT ![d] = get(store, LeafKey(leaf))]
        /\ cur'[d] # UnmarshalError
        /\ calls' = Append(calls, GetCall(d, pos[d] + 1, LeafKey(leaf),
                                          GetLeaves(store, Sum256(LeafKey(leaf)))))
    /\ pc' = [pc EXCEPT ![d] = "got"]
    /\ UNCHANGED <<store, store0, pos, restarts, replays, final, maporder>>

\* the return of Leaf()
Return(d) ==
    /\ pc' = [pc EXCEPT ![d] = "scan"]
    /\ pos' = [pos EXCEPT ![d] = @ + 1]
    /\ cur' = [cur EXCEPT ![d] = Nil]
    /\ UNCHANGED <<log, store0, restarts, replays, final, maporder>>

\* Leaf(), lines 145-148: no current record
LeafCreate(d) ==
    /\ pc[d] = "got"
    /\ Branch(cur[d], CurrentLeaf(d)) = "create"
    /\ LET leaf == CurrentLeaf(d)
           r == NewRecord(LeafEntry(leaf), LeafItem(leaf))
       IN /\ store' = saveRecord(store, LeafKey(leaf), r)
          /\ calls' = Append(calls, SetCall(d, pos[d] + 1, LeafKey(leaf), r))
    /\ Return(d)

\* Leaf(), lines 155-157: the leaf is older than the current record
LeafSkip(d) ==
    /\ pc[d] = "got"
    /\ Branch(cur[d], CurrentLeaf(d)) = "skip"
    /\ UNCHANGED <<store, calls>>
    /\ Return(d)

\* Leaf(), lines 158-161: the leaf is newer than the current record
LeafReplace(d) ==
    /\ pc[d] = "got"
    /\ Branch(cur[d], CurrentLeaf(d)) = "replace"
    /\ LET leaf == CurrentLeaf(d)
           r == NewRecord(LeafEntry(leaf), LeafItem(leaf))
       IN /\ store' = saveRecord(store, LeafKey(leaf), r)
          /\ calls' = Append(calls, SetCall(d, pos[d] + 1, LeafKey(leaf), r))
    /\ Return(d)

\* Leaf(), lines 164-168: same timestamp
LeafAdd(d) ==
    /\ pc[d] = "got"
    /\ Branch(cur[d], CurrentLeaf(d)) = "add"
    /\ LET leaf == CurrentLeaf(d)
           r == add(cur[d][1], LeafItem(leaf))
       IN /\ store' = saveRecord(store, LeafKey(leaf), r)
          /\ calls' = Append(calls, SetCall(d, pos[d] + 1, LeafKey(leaf), r))
    /\ Return(d)

Leaf(d) == LeafGet(d) \/ LeafCreate(d) \/ LeafSkip(d) \/ LeafReplace(d) \/ LeafAdd(d)

\* the leaves tc.Scan may hand over next when the log holds undecodable leaves
NextBadLeaves(d) ==
    IF pos[d] < Len(log) THEN {log[pos[d] + 1]}
    ELSE IF Len(log) < MaxLog /\ replays = 0 THEN BadLeaves
    ELSE {}

\* an error returned by Leaf() ends tc.Scan, and main() ends in log.Fatal
ScanAbort(d, how) ==
    /\ pc' = [pc EXCEPT ![d] = how]
    /\ UNCHANGED <<pos, cur, store0, restarts, replays, final, maporder>>

\* mutant: the error of get is dropped and Leaf() goes on as if no record was found
GetErrorIgnored == "got"

\* lines 142-144: Leaf() returns the error of get
GetError == "get_error"

\* Leaf(), lines 126-135: json.Unmarshal or time.Parse returns an error
LeafDecodeError(d) ==
    /\ pc[d] = "scan"
    /\ \E leaf \in {l \in NextBadLeaves(d) : Decode(l) = "error"} :
        log' = IF pos[d] < Len(log) THEN log ELSE Append(log, leaf)
    /\ UNCHANGED <<store, calls>>
    /\ ScanAbort(d, "decode_error")

\* Leaf(), lines 131-138: a type assertion panics and the process dies
LeafPanic(d) ==
    /\ pc[d] = "scan"
    /\ \E leaf \in {l \in NextBadLeaves(d) : Decode(l) = "panic"} :
        log' = IF pos[d] < Len(log) THEN log ELSE Append(log, leaf)
    /\ pc' = [pc EXCEPT ![d] = "panic"]
    /\ UNCHANGED <<store, calls, pos, cur, store0, restarts, replays, final, maporder>>

\* Leaf(), lines 141-144 with getLeaf lines 88-91: GetLeaves returns an error
LeafGetFail(d) ==
    /\ pc[d] = "scan"
    /\ \E leaf \in {l \in NextLeaves(d) : Decode(l) = "ok"} :
        /\ log' = IF pos[d] < Len(log) THEN log ELSE Append(log, leaf)
        /\ calls' = Append(calls, GetErrCall(d, pos[d] + 1, LeafKey(leaf)))
    /\ UNCHANGED store
    /\ ScanAbort(d, GetError)

\* Leaf(), lines 141-144 with getLeaf lines 100-104: GetLeaves answered with
\* a value json.Unmarshal rejects; get and Leaf() return the error
LeafGetUnmarshalFail(d) ==
    /\ pc[d] = "scan"
    /\ \E leaf \in {l \in NextLeaves(d) : Decode(l) = "ok"} :
        /\ get(store, LeafKey(leaf)) = UnmarshalError
        /\ log' = IF pos[d] < Len(log) THEN log ELSE Append(log, leaf)
        /\ calls' = Append(calls, GetCall(d, pos[d] + 1, LeafKey(leaf),
                                          GetLeaves(store, Sum256(LeafKey(leaf)))))
    /\ UNCHANGED store
    /\ ScanAbort(d, GetError)

\* Leaf(), lines 150-153: time.Parse of the stored timestamp returns an error
LeafRecordTimeError(d) ==
    /\ pc[d] = "got"
    /\ Branch(cur[d], CurrentLeaf(d)) = "error"
    /\ UNCHANGED <<log, store, calls>>
    /\ ScanAbort(d, "record_error")

\* Leaf(), line 150: the stored Entry has no entry-timestamp, the type
\* assertion panics and the process dies
LeafRecordPanic(d) ==
    /\ pc[d] = "got"
    /\ Branch(cur[d], CurrentLeaf(d)) = "panic"
    /\ pc' = [pc EXCEPT ![d] = "panic"]
    /\ UNCHANGED <<log, store, calls, pos, cur, store0, restarts, replays, final, maporder>>

\* saveRecord, lines 75-77: SetLeaves returns an error and log.Fatalf ends the
\* process; the map has taken the write or it has not
LeafSetFail(d) ==
    /\ pc[d] = "got"
    /\ Branch(cur[d], CurrentLeaf(d)) \in Writing
    /\ LET leaf == CurrentLeaf(d)
           r == Saved(cur[d], leaf)
       IN /\ store' \in {store, saveRecord(store, LeafKey(leaf), r)}
          /\ calls' = Append(calls, SetErrCall(d, pos[d] + 1, LeafKey(leaf), r))
    /\ pc' = [pc EXCEPT ![d] = "set_error"]
    /\ UNCHANGED <<log, pos, cur, store0, restarts, replays, final, maporder>>

LeafFail(d) ==
    \/ LeafDecodeError(d) \/ LeafPanic(d) \/ LeafGetFail(d) \/ LeafSetFail(d)
    \/ LeafGetUnmarshalFail(d) \/ LeafRecordTimeError(d) \/ LeafRecordPanic(d)

\* the process is stopped (at any point) and main() is run again: tc.Scan
\* starts from the first leaf of the log against the map as it was left
Restart(d) ==
    /\ restarts < MaxRestarts
    /\ restarts' = restarts + 1
    /\ pc' = [pc EXCEPT ![d] = "scan"]
    /\ pos' = [pos EXCEPT ![d] = 0]
    /\ cur' = [cur EXCEPT ![d] = Nil]
    /\ calls' = SelectSeq(calls, LAMBDA c : c.d # d)
    /\ UNCHANGED <<log, store, store0, replays, final, maporder>>

\* a finished scan is repeated on a map reset to the starting contents, by a
\* process whose runtime ranges over maps in an order of its own
Replay(d) ==
    /\ replays < MaxReplays
    /\ pc[d] = "scan"
    /\ pos[d] = Len(log)
    /\ Len(log) > 0
    /\ replays' = replays + 1
    /\ final' = IF replays = 0 THEN store ELSE final
    /\ store' = store0
    /\ pos' = [pos EXCEPT ![d] = 0]
    /\ calls' = SelectSeq(calls, LAMBDA c : c.d # d)
    /\ \E o \in MapOrders : maporder' = [maporder EXCEPT !.now = o]
    /\ UNCHANGED <<log, store0, pc, cur, restarts>>

Next == Leaf("d1")
NextRestart == Leaf("d1") \/ Restart("d1")
NextReplay == Leaf("d1") \/ Replay("d1")
NextErr == Leaf("d1") \/ LeafFail("d1")
NextTwo == Leaf("d1") \/ Leaf("d2")

Spec == Init /\ [][Next]_vars
SpecRestart == InitAny /\ [][NextRestart]_vars
SpecReplay == InitReplay /\ [][NextReplay]_vars
SpecErr == InitErr /\ [][NextErr]_vars
SpecTwo == InitTwo /\ [][NextTwo]_vars
SpecExample == InitExample /\ [][Next]_vars

(***************************************************************************)
(* Properties.                                                             *)
(***************************************************************************)
\* the record stored for a key: <<>> when get reports none, else <<record>>
Stored(st, k) == getLeaf(st, k)
StoredTime(st, k) == ParseTime(Stored(st, k)[1].Entry["entry-timestamp"])

\* this step is the return of process d's Leaf() call
Returns(d) == pc[d] = "got" /\ pc'[d] = "scan" /\ pos'[d] = pos[d] + 1

\* the map RPCs process d issued for the n-th leaf of the log
CallsOf(d, n) == SelectSeq(calls, LAMBDA c : c.d = d /\ c.n = n)

\* process d has handled every leaf of the log read so far
CaughtUp(d) == pc[d] = "scan" /\ pos[d] = Len(log)

PairwiseDistinct(items) ==
    \A m, n \in 1..Len(items) : m # n => items[m] # items[n]

\* C1 (stale no-op): when Leaf() returns for a leaf whose timestamp is strictly
\* before the timestamp of the record stored for its key, no SetLeaves call was
\* issued and the map leaf of every key is exactly what it was.
C1_StaleNoOp ==
    [][\A d \in Drivers :
        (/\ Returns(d)
         /\ Stored(store, LeafKey(CurrentLeaf(d))) # Nil
         /\ LeafTime(CurrentLeaf(d)) < StoredTime(store, LeafKey(CurrentLeaf(d))))
        => (store' = store /\ calls' = calls)]_vars

\* a stale leaf has been handled: its get returned a record with a later
\* timestamp and it is the only call made for the leaf
C1_Witness ==
    \E n \in 1..pos["d1"] :
        LET cs == CallsOf("d1", n)
        IN /\ Len(cs) = 1
           /\ cs[1].op = "get"
           /\ Len(cs[1].value) > 0
           /\ LeafTime(log[n]) < ParseTime(Unmarshal(cs[1].value).Entry["entry-timestamp"])

\* C2 (replace): when Leaf() returns for a leaf whose timestamp is strictly
\* after the timestamp of the record stored for its key, the stored record is
\* the leaf's Entry with Items = <<the leaf's Item>>.
C2_Replace ==
    [][\A d \in Drivers :
        (/\ Returns(d)
         /\ Stored(store, LeafKey(CurrentLeaf(d))) # Nil
         /\ LeafTime(CurrentLeaf(d)) > StoredTime(store, LeafKey(CurrentLeaf(d))))
        => Stored(store', LeafKey(CurrentLeaf(d)))
             = <<[Entry |-> LeafEntry(CurrentLeaf(d)),
                  Items |-> <<LeafItem(CurrentLeaf(d))>>]>>]_vars

\* the last leaf handled was newer than a stored record holding two items, and
\* the record now holds the leaf's entry and its item alone
C2_Witness ==
    /\ pc["d1"] = "scan"
    /\ pos["d1"] > 0
    /\ LET n == pos["d1"]
           cs == CallsOf("d1", n)
       IN /\ Len(cs) = 2
          /\ Len(cs[1].value) = 4
          /\ LeafTime(log[n]) > ParseTime(Unmarshal(cs[1].value).Entry["entry-timestamp"])
          /\ Stored(store, LeafKey(log[n]))
               = <<[Entry |-> LeafEntry(log[n]), Items |-> <<LeafItem(log[n])>>]>>

\* C3 (merge/dedup): when Leaf() returns for a leaf whose timestamp equals the
\* timestamp of the record stored for its key, the stored Entry is the one
\* stored before and Items is the old Items, with the leaf's Item appended at
\* the end exactly when no structurally equal Item was in it.
C3_Merge ==
    [][\A d \in Drivers :
        (/\ Returns(d)
         /\ Stored(store, LeafKey(CurrentLeaf(d))) # Nil
         /\ LeafTime(CurrentLeaf(d)) = StoredTime(store, LeafKey(CurrentLeaf(d))))
        => LET old == Stored(store, LeafKey(CurrentLeaf(d)))[1]
               i == LeafItem(CurrentLeaf(d))
           IN Stored(store', LeafKey(CurrentLeaf(d)))
                = <<[Entry |-> old.Entry,
                     Items |-> IF \E n \in 1..Len(old.Items) : old.Items[n] = i
                               THEN old.Items
                               ELSE old.Items \o <<i>>]>>]_vars

\* three leaves of one key and one instant were handled: item A, an equal item
\* in another spelling, then a distinct item B under another spelling of the
\* timestamp; the record holds the first leaf's Entry and Items = <<A, B>>
C3_Witness ==
    /\ pos["d1"] = 3
    /\ pc["d1"] = "scan"
    /\ \A n \in 1..3 : LeafKey(log[n]) = "k1" /\ LeafTime(log[n]) = LeafTime(log[1])
    /\ log[2].item # log[1].item
    /\ LeafItem(log[2]) = LeafItem(log[1])
    /\ LeafItem(log[3]) # LeafItem(log[1])
    /\ LeafEntry(log[3]) # LeafEntry(log[1])
    /\ Stored(store, "k1")
         = <<[Entry |-> LeafEntry(log[1]), Items |-> <<LeafItem(log[1]), LeafItem(log[3])>>]>>

\* C4 (create): when Leaf() returns for a leaf for whose key get reported no
\* record, the record stored for the key is the leaf's Entry with
\* Items = <<the leaf's Item>>.
C4_Create ==
    [][\A d \in Drivers :
        (/\ Returns(d)
         /\ get(store, LeafKey(CurrentLeaf(d))) = Nil)
        => Stored(store', LeafKey(CurrentLeaf(d)))
             = <<[Entry |-> LeafEntry(CurrentLeaf(d)),
                  Items |-> <<LeafItem(CurrentLeaf(d))>>]>>]_vars

\* the last leaf handled found no record (its get returned the empty value)
\* and the map now holds a record made of that leaf
C4_Witness ==
    /\ pc["d1"] = "scan"
    /\ pos["d1"] > 0
    /\ LET n == pos["d1"]
           cs == CallsOf("d1", n)
       IN /\ Len(cs) = 2
          /\ cs[1].op = "get"
          /\ cs[1].value = <<>>
          /\ Stored(store, LeafKey(log[n]))
               = <<[Entry |-> LeafEntry(log[n]), Items |-> <<LeafItem(log[n])>>]>>

\* C5: starting from the empty map, the Items of every stored record are
\* pairwise structurally distinct.
C5_ItemsDistinct ==
    \A k \in Keys :
        Stored(store, k) # Nil => PairwiseDistinct(Stored(store, k)[1].Items)

\* a record holds two items although three leaves of its key and instant were
\* handled, the third carrying an item equal to the first
C5_Witness ==
    /\ pos["d1"] = 3
    /\ \A n \in 1..3 : LeafKey(log[n]) = "k1" /\ LeafTime(log[n]) = LeafTime(log[1])
    /\ LeafItem(log[3]) = LeafItem(log[1])
    /\ LeafItem(log[2]) # LeafItem(log[1])
    /\ Len(Stored(store, "k1")[1].Items) = 2

\* C6: starting from the empty map, every Item of the record stored for key k
\* was carried by a handled leaf of key k whose timestamp is the instant of
\* the record's Entry.
C6_ItemsUnderEntry ==
    \A k \in Keys :
        Stored(store, k) # Nil =>
            LET r == Stored(store, k)[1]
            IN \A m \in 1..Len(r.Items) :
                \E n \in 1..pos["d1"] :
                    /\ LeafKey(log[n]) = k
                    /\ LeafTime(log[n]) = ParseTime(r.Entry["entry-timestamp"])
                    /\ LeafItem(log[n]) = r.Items[m]

\* leaves of k1 with an older and with the record's timestamp were handled,
\* the older one both before and after the record's Entry was accepted, and
\* the older leaves' item is not in the record
C6_Witness ==
    /\ pos["d1"] = 3
    /\ \A n \in 1..3 : LeafKey(log[n]) = "k1"
    /\ LeafTime(log[1]) < LeafTime(log[2])
    /\ LeafTime(log[3]) < LeafTime(log[2])
    /\ LeafItem(log[1]) # LeafItem(log[2])
    /\ LeafItem(log[3]) = LeafItem(log[1])
    /\ Stored(store, "k1") = <<[Entry |-> LeafEntry(log[2]), Items |-> <<LeafItem(log[2])>>]>>

\* C7 (restart idempotence): whenever the process, stopped and started again
\* any number of times at any points, has handled the whole log, the record
\* stored for every key is the one a single uninterrupted scan of the log
\* from the starting map produces.
C7_RestartIdempotent ==
    CaughtUp("d1") =>
        LET once == ScanStore(store0, log)
        IN \A k \in Keys : Stored(store, k) = Stored(once, k)

\* the process was restarted after a proper prefix of a three-leaf log: in the
\* scan after the restart the first leaf met a record the stopped run had
\* written (the map started without one) and the third leaf met none
C7_Witness ==
    /\ restarts = 1
    /\ CaughtUp("d1")
    /\ Len(log) = 3
    /\ ~store0[Sum256(LeafKey(log[1]))].written
    /\ Len(CallsOf("d1", 1)[1].value) > 0
    /\ CallsOf("d1", 3)[1].value = <<>>

\* C8 (deterministic replay): whenever the same log has been scanned again
\* from the same starting map, by a run that may range over maps in another
\* order than the first, the record stored for every key is the one the first
\* scan ended with, and so is the value of every map leaf.
C8_DeterministicReplay ==
    (replays > 0 /\ CaughtUp("d1")) =>
        /\ \A k \in Keys : Stored(store, k) = Stored(final, k)
        /\ \A x \in Indices : store[x] = final[x]

\* a three-leaf log was scanned a third time from a non-empty starting map,
\* by a run that ranges over maps in another order than the first run did,
\* and the scan changed the map and merged items
C8_Witness ==
    /\ replays = 2
    /\ maporder.now # maporder.first
    /\ CaughtUp("d1")
    /\ Len(log) = 3
    /\ store0 # EmptyStore
    /\ \E k \in Keys : Stored(store, k) # Stored(store0, k)
    /\ \E k \in Keys : Len(Stored(store, k)) = 1 /\ Len(Stored(store, k)[1].Items) > 1

\* C9: get tells a map leaf that was never written from one written with a
\* zero-length payload: it reports "no record" only for a leaf never written.
C9_GetDistinguishesEmpty ==
    \A d \in Drivers :
        (pc[d] = "got" /\ cur[d] = Nil)
            => ~store[Sum256(LeafKey(CurrentLeaf(d)))].written

\* C10 (per-leaf protocol): the calls of the process are in log order; for
\* every leaf handled they are one get of the leaf's index, followed by one
\* set of that index unless the get returned a record with a later timestamp
\* (the stale case), in which case the get is the only call; a leaf whose
\* get has returned and whose Leaf() has not has the get alone.
C10_Protocol ==
    \A d \in Drivers :
        /\ \A m, n \in 1..Len(calls) :
              (m < n /\ calls[m].d = d /\ calls[n].d = d) => calls[m].n <= calls[n].n
        /\ \A n \in 1..pos[d] :
              LET cs == CallsOf(d, n)
                  stale == /\ Len(cs[1].value) > 0
                           /\ LeafTime(log[n])
                                < ParseTime(Unmarshal(cs[1].value).Entry["entry-timestamp"])
              IN /\ Len(cs) = IF stale THEN 1 ELSE 2
                 /\ cs[1].op = "get"
                 /\ \A m \in 1..Len(cs) : cs[m].index = Sum256(LeafKey(log[n]))
                 /\ Len(cs) = 2 => cs[2].op = "set"
        /\ pc[d] = "got" =>
              LET cs == CallsOf(d, pos[d] + 1)
              IN Len(cs) = 1 /\ cs[1].op = "get"
        /\ \A n \in 1..Len(calls) :
              calls[n].d = d => calls[n].n <= pos[d] + (IF pc[d] = "got" THEN 1 ELSE 0)

\* three leaves were handled: a create, then a merge of a duplicate item that
\* wrote back the value it had read, then a stale leaf with a get alone
C10_Witness ==
    /\ pos["d1"] = 3
    /\ pc["d1"] = "scan"
    /\ Len(calls) = 5
    /\ calls[1].value = <<>>
    /\ calls[3].op = "get" /\ calls[4].op = "set" /\ calls[4].value = calls[3].value
    /\ calls[5].op = "get" /\ calls[5].n = 3

\* the map as the leaves handled before the current one left it
StoreBefore(d) == ScanStore(store0, SubSeq(log, 1, pos[d]))

\* C11 (decode errors): whenever Leaf() has been handed a leaf it cannot decode
\* (payload not JSON, key or entry-timestamp missing or unparsable), it has
\* returned a decode error, no call was issued for the leaf, the map is as
\* the leaves before left it, and no later leaf was handed over.
C11_DecodeErrorSurfaced ==
    \A d \in Drivers :
        (pos[d] < Len(log) /\ pc[d] # "scan" /\ Decode(CurrentLeaf(d)) # "ok")
            => /\ pc[d] = "decode_error"
               /\ CallsOf(d, pos[d] + 1) = <<>>
               /\ store = StoreBefore(d)
               /\ Len(log) = pos[d] + 1

FailedOps == {"geterr", "seterr"}

\* C12 (transport errors): a call that returned an error is the last call of
\* its process and the only failed one, its leaf is not counted as handled and
\* the process has ended; a failed get is the only call of its leaf and leaves
\* the map unchanged; a failed set follows the get of its leaf and leaves the
\* map leaf of the key either as it was or holding the whole new value, every
\* other leaf as it was; once ended, the process issues no call and hands on
\* no leaf.
C12_TransportErrorsTerminal ==
    [][\A d \in Drivers :
        /\ \A j \in 1..Len(calls') :
              (calls'[j].d = d /\ calls'[j].op \in FailedOps) =>
                  /\ \A m \in 1..Len(calls') : (m # j /\ calls'[m].d = d) =>
                        (m < j /\ calls'[m].op \notin FailedOps)
                  /\ calls'[j].n = pos'[d] + 1
                  /\ pc'[d] = (IF calls'[j].op = "geterr" THEN "get_error" ELSE "set_error")
                  /\ LET cs == SelectSeq(calls', LAMBDA c : c.d = d /\ c.n = calls'[j].n)
                     IN IF calls'[j].op = "geterr"
                        THEN Len(cs) = 1
                        ELSE Len(cs) = 2 /\ cs[1].op = "get" /\ cs[1].index = cs[2].index
        /\ (pc[d] = "scan" /\ pc'[d] = "get_error") => store' = store
        /\ (pc[d] = "got" /\ pc'[d] = "set_error") =>
              LET c == calls'[Len(calls')]
              IN /\ store'[c.index] \in {store[c.index], [written |-> TRUE, LeafValue |-> c.value]}
                 /\ \A x \in Indices \ {c.index} : store'[x] = store[x]
        /\ pc[d] \in {"get_error", "set_error"} =>
              UNCHANGED <<store, calls, pos, pc, log>>]_vars

\* a set of the second leaf failed after the map had taken the write: the map
\* holds the value of the failed call, which is not the value the get returned
C12_Witness ==
    /\ pc["d1"] = "set_error"
    /\ pos["d1"] = 1
    /\ Len(calls) = 4
    /\ calls[4].op = "seterr"
    /\ calls[3].value # <<>>
    /\ calls[3].value # calls[4].value
    /\ store[calls[4].index].LeafValue = calls[4].value

\* C13 (round trip, read your writes): a get that follows a successful set of
\* the same index with no set of that index in between returns a non-empty
\* value that decodes to the record handed to that set (same Entry, same Items
\* in the same order), and that record is what get hands to Leaf().
C13_ReadYourWrites ==
    \A j, k \in 1..Len(calls) :
        (/\ j < k
         /\ calls[j].op = "set"
         /\ calls[k].op = "get"
         /\ calls[k].index = calls[j].index
         /\ \A m \in (j + 1)..(k - 1) :
               ~(calls[m].op = "set" /\ calls[m].index = calls[j].index))
        => /\ calls[k].value # <<>>
           /\ Unmarshal(calls[k].value) = calls[j].rec
           /\ (pc[calls[k].d] = "got" /\ calls[k].n = pos[calls[k].d] + 1)
                 => cur[calls[k].d] = <<calls[j].rec>>

\* the get of the third leaf has returned the two-item record that the set
\* of the second leaf wrote
C13_Witness ==
    /\ pc["d1"] = "got"
    /\ pos["d1"] = 2
    /\ Len(calls) = 5
    /\ calls[4].op = "set"
    /\ Len(calls[4].rec.Items) = 2
    /\ calls[5].op = "get"
    /\ calls[5].index = calls[4].index
    /\ cur["d1"] = <<calls[4].rec>>

\* C14 (one record per key, key isolation): a record of key k is held only by
\* the map leaf at the index of k, so the map holds at most one record per
\* key; and a step changes no map leaf but the one of the key of the leaf
\* being handled.
C14_KeyIsolation ==
    [][/\ \A k \in Keys : \A x \in Indices :
             (store'[x].LeafValue # <<>> /\ Unmarshal(store'[x].LeafValue).Entry["key"] = k)
                 => x = Sum256(k)
       /\ \A x \in Indices :
             store'[x] # store[x] =>
                 \E d \in Drivers :
                     /\ pc[d] = "got"
                     /\ x = Sum256(LeafKey(CurrentLeaf(d)))]_vars

\* the third leaf, of key k2, created the record of k2 and the two-item
\* record of k1 is still there
C14_Witness ==
    /\ pos["d1"] = 3
    /\ pc["d1"] = "scan"
    /\ LeafKey(log[3]) = "k2"
    /\ calls[Len(calls)].op = "set"
    /\ Stored(store, "k2") # Nil
    /\ Stored(store, "k1") # Nil
    /\ Len(Stored(store, "k1")[1].Items) = 2

\* C15 (unguarded race): with two processes on one map, a set puts into the
\* map the record its writer computed from what it had read, whatever the map
\* holds by then (no check against a previous revision).
C15_UnconditionalSet ==
    [][\A d \in Drivers :
        (Returns(d) /\ calls' # calls) =>
            store'[Sum256(LeafKey(CurrentLeaf(d)))]
                = [written |-> TRUE, LeafValue |-> Marshal(Saved(cur[d], CurrentLeaf(d)))]]_vars

\* the interleaving get1, get2, set1, set2 on one key has happened and the
\* second set has overwritten the first: the stored record has the timestamp
\* of the record the first set wrote and lacks an item of it, or has an
\* older timestamp than it
C15_Witness ==
    /\ Len(calls) >= 4
    /\ LET n == Len(calls)
           g1 == calls[n - 3]
           g2 == calls[n - 2]
           s1 == calls[n - 1]
           s2 == calls[n]
       IN /\ g1.op = "get" /\ g2.op = "get" /\ s1.op = "set" /\ s2.op = "set"
          /\ g1.d = s1.d /\ g2.d = s2.d /\ g1.d # g2.d
          /\ g1.index = g2.index
          /\ store[s2.index].LeafValue = s2.value
          /\ LET now == Unmarshal(s2.value)
                 tnow == ParseTime(now.Entry["entry-timestamp"])
                 tlost == ParseTime(s1.rec.Entry["entry-timestamp"])
             IN \/ /\ tnow = tlost
                   /\ \E m \in 1..Len(s1.rec.Items) :
                         \A q \in 1..Len(now.Items) : now.Items[q] # s1.rec.Items[m]
                \/ tnow < tlost

\* the two ways the race loses an update, each reached
C15_LostItem ==
    /\ C15_Witness
    /\ ParseTime(Unmarshal(calls[Len(calls)].value).Entry["entry-timestamp"])
         = ParseTime(calls[Len(calls) - 1].rec.Entry["entry-timestamp"])
C15_LostEntry ==
    /\ C15_Witness
    /\ ParseTime(Unmarshal(calls[Len(calls)].value).Entry["entry-timestamp"])
         < ParseTime(calls[Len(calls) - 1].rec.Entry["entry-timestamp"])

\* C16 (end-to-end example): scanning the example log from the empty map, the
\* record of k1 after the third leaf has the 2020 Entry and Items
\* <<{v:1}, {v:2}>>, and after the fourth leaf the 2021 Entry and Items <<{v:3}>>.
C16_Example ==
    log = ExampleLog =>
        /\ (pos["d1"] = 3 /\ pc["d1"] = "scan") =>
              Stored(store, "k1")
                = <<[Entry |-> ("entry-timestamp" :> "2020-01-01T00:00:00Z") @@ ("key" :> "k1"),
                     Items |-> <<[v |-> 1], [v |-> 2]>>]>>
        /\ pos["d1"] = 4 =>
              Stored(store, "k1")
                = <<[Entry |-> ("entry-timestamp" :> "2021-01-01T00:00:00Z") @@ ("key" :> "k1"),
                     Items |-> <<[v |-> 3]>>]>>

\* the four leaves of the example were handled: a create, an add, a skip and
\* a replace, seven calls in all
C16_Witness ==
    /\ log = ExampleLog
    /\ pos["d1"] = 4
    /\ Len(calls) = 7
    /\ calls[5].op = "get" /\ calls[5].n = 3 /\ calls[6].n = 4
    /\ Len(Stored(store, "k1")[1].Items) = 1

\* s is a prefix of t
IsPrefix(s, t) == Len(s) <= Len(t) /\ \A n \in 1..Len(s) : s[n] = t[n]

\* C17 (single writer): with one process, as long as the get of a leaf has
\* returned and its Leaf() has not, the map holds for the key exactly what the
\* get returned (the record, or none); and no step loses anything: a stored
\* record stays, with a later timestamp or with the same Entry and its Items
\* kept in place.
C17_SingleWriter ==
    [][/\ \A d \in Drivers :
             pc'[d] = "got" => cur'[d] = Stored(store', LeafKey(log'[pos'[d] + 1]))
       /\ \A d \in Drivers :
             (Returns(d) /\ calls' # calls) =>
                 cur[d] = Stored(store, LeafKey(CurrentLeaf(d)))
       /\ \A k \in Keys :
             Stored(store, k) # Nil =>
                 /\ Stored(store', k) # Nil
                 /\ \/ StoredTime(store', k) > StoredTime(store, k)
                    \/ /\ Stored(store', k)[1].Entry = Stored(store, k)[1].Entry
                       /\ IsPrefix(Stored(store, k)[1].Items, Stored(store', k)[1].Items)]_vars

\* the set of the third leaf was issued on the two-item record that the set of
\* the second leaf had written and the get of the third leaf had returned
C17_Witness ==
    /\ pos["d1"] = 3
    /\ pc["d1"] = "scan"
    /\ Len(calls) = 6
    /\ Len(calls[4].rec.Items) = 2
    /\ calls[5].op = "get"
    /\ calls[5].value = calls[4].value
    /\ calls[6].op = "set"
    /\ calls[6].index = calls[4].index
    /\ calls[6].value # calls[4].value

\* seq[1..n] with every element equal to an earlier one left out
RECURSIVE KeepFirst(_, _)
KeepFirst(seq, n) ==
    IF n = 0 THEN <<>>
    ELSE IF \E m \in 1..(n - 1) : seq[m] = seq[n]
         THEN KeepFirst(seq, n - 1)
         ELSE Append(KeepFirst(seq, n - 1), seq[n])

\* the leaves of key k among the leaves handled, in log order
LeavesOf(d, k) == SelectSeq(SubSeq(log, 1, pos[d]), LAMBDA l : l.key = k)

MaxTime(ls) ==
    CHOOSE t \in {ParseTime(ls[n].ts) : n \in 1..Len(ls)} :
        \A n \in 1..Len(ls) : ParseTime(ls[n].ts) <= t

\* what the claim says the record of a key with leaves ls is
Characterised(ls) ==
    LET top == SelectSeq(ls, LAMBDA l : ParseTime(l.ts) = MaxTime(ls))
        items == [n \in 1..Len(top) |-> ParseItem(top[n].item)]
    IN [Entry |-> ("entry-timestamp" :> top[1].ts) @@ ("key" :> top[1].key),
        Items |-> KeepFirst(items, Len(items))]

\* C18 (final state): from the empty map, whenever the process is between two
\* leaves (in particular at the end of the log), a key with no leaf handled
\* has no map leaf, and the record of any other key has the Entry of the first
\* handled leaf of the key that carries the greatest timestamp, and as Items
\* the items of the leaves with that timestamp in log order, first occurrences
\* only.
C18_FinalState ==
    pc["d1"] = "scan" =>
        \A k \in Keys :
            IF LeavesOf("d1", k) = <<>>
            THEN store[Sum256(k)] = NoLeaf
            ELSE /\ Stored(store, k) = <<Characterised(LeavesOf("d1", k))>>
                 /\ StoredTime(store, k) = MaxTime(LeavesOf("d1", k))

\* a three-leaf log was scanned: k1 got a leaf with the greatest timestamp
\* under one spelling, then one with an equal instant under another spelling
\* and a new item, then k2 got a leaf; the record of k1 has the Entry of the
\* first leaf and both items
C18_Witness ==
    /\ CaughtUp("d1")
    /\ Len(log) = 3
    /\ log[1].key = "k1" /\ log[2].key = "k1" /\ log[3].key = "k2"
    /\ ParseTime(log[1].ts) = ParseTime(log[2].ts)
    /\ log[1].ts # log[2].ts
    /\ Stored(store, "k1")
         = <<[Entry |-> LeafEntry(log[1]),
              Items |-> <<ParseItem(log[1].item), ParseItem(log[2].item)>>]>>
    /\ ParseItem(log[1].item) # ParseItem(log[2].item)
    /\ Stored(store, "k2") # Nil

\* C19 (monotonic timestamps, no deletion): with one process, no step lowers
\* the timestamp of the Entry stored for a key or removes a stored record,
\* and a get of a key issued after a set of it never returns the empty value.
C19_Monotonic ==
    [][/\ \A k \in Keys :
             Stored(store, k) # Nil =>
                 /\ Stored(store', k) # Nil
                 /\ StoredTime(store', k) >= StoredTime(store, k)
       /\ \A j, m \in 1..Len(calls') :
             (j < m /\ calls'[j].op = "set" /\ calls'[m].op = "get"
                    /\ calls'[m].index = calls'[j].index)
                 => calls'[m].value # <<>>]_vars

\* the timestamp of k1 was raised by the second leaf and the third leaf, as
\* old as the first, was handled without lowering it
C19_Witness ==
    /\ pos["d1"] = 3
    /\ pc["d1"] = "scan"
    /\ Len(calls) = 5
    /\ calls[5].op = "get"
    /\ calls[5].value = calls[4].value
    /\ ParseTime(calls[2].rec.Entry["entry-timestamp"])
         < ParseTime(calls[4].rec.Entry["entry-timestamp"])
    /\ LeafTime(log[3]) = LeafTime(log[1])
    /\ StoredTime(store, "k1") = LeafTime(log[2])
    /\ LeafKey(log[3]) = "k1" /\ LeafKey(log[1]) = "k1"

\* the logs that hold the leaves of the log in another order
Reorderings ==
    {[n \in 1..Len(log) |-> log[p[n]]] : p \in Permutations(1..Len(log))}

ItemSet(r) == {r.Items[n] : n \in 1..Len(r.Items)}

\* C20 (arrival order): from the empty map, when the whole log is handled,
\* a scan of the same leaves in any other order ends, for every key, with a
\* record exactly when this scan did, with the same instant as Entry timestamp
\* and the same set of Items.
C20_OrderInsensitive ==
    CaughtUp("d1") =>
        \A other \in Reorderings :
            LET reordered == ScanStore(EmptyStore, other)
            IN \A k \in Keys :
                LET a == Stored(store, k)
                    b == Stored(reordered, k)
                IN /\ (a = Nil) = (b = Nil)
                   /\ a # Nil =>
                        /\ ParseTime(a[1].Entry["entry-timestamp"])
                             = ParseTime(b[1].Entry["entry-timestamp"])
                        /\ ItemSet(a[1]) = ItemSet(b[1])

\* a three-leaf log was scanned and another order of its leaves ends with
\* the items of k1 in another order and with another Entry of the same instant
C20_Witness ==
    /\ CaughtUp("d1")
    /\ Len(log) = 3
    /\ Stored(store, "k1") # Nil
    /\ \E other \in Reorderings :
          LET a == Stored(store, "k1")[1]
              b == Stored(ScanStore(EmptyStore, other), "k1")[1]
          IN /\ a.Items # b.Items
             /\ a.Entry # b.Entry
             /\ Len(a.Items) = 2

====
